---- MODULE Spec2Model ----
(***************************************************************************)
(* Model of the direct-multiple-shooting ShotContainer (its four counter-  *)
(* keyed integration tiers) and of the LQOC problem / solver contract      *)
(* exercised by boxConstraintsTest.                                        *)
(***************************************************************************)
EXTENDS Integers, Sequences, FiniteSets, TLC

VARIABLES w, sc, alone, procExited, lqoc

(***************************************************************************)
(* Bounds of the model.                                                    *)
(***************************************************************************)
\* largest value the DecisionVector's update counter takes in the model
MaxCount == 2
\* decision variables (shot states, control nodes) range over 0..MaxVal
MaxVal == 1

Vals == 0 .. MaxVal
\* scalar stand-in for the double / Eigen arithmetic: integers modulo Modulus
Modulus == MaxVal + 2
Scalars == 0 .. (Modulus - 1)

(***************************************************************************)
(* DmsSettings and TimeGrid as used by the constructor.                    *)
(***************************************************************************)
\* settings.N_: number of shots
N_ == 2
\* settings_.dt_sim_
dt_sim_ == 1
\* TimeGrid: shot i runs from GridTimes[i+1] to GridTimes[i+2]
GridTimes == <<0, 1, 3>>

IntegrationTypes == {"EULER", "RK4", "RK5", "UNKNOWN"}
SplineTypes == {"ZERO_ORDER_HOLD", "PIECEWISE_LINEAR"}
CostEvaluationTypes == {"SIMPLE", "FULL"}

getShotStartTime(shotNr) == GridTimes[shotNr + 1]
getShotEndTime(shotNr) == GridTimes[shotNr + 2]

(***************************************************************************)
(* DecisionVector w (OptVectorDms): update counter, shot states s_i and    *)
(* control nodes q_i.                                                      *)
(***************************************************************************)
Contents == [s : [0 .. (N_ - 1) -> Vals], q : [0 .. N_ -> Vals]]

getUpdateCount(W) == W.count
getOptimizedState(W, shotNr) == W.s[shotNr]

\* the outer loop writes new content: the update counter is incremented
setOptimizationVars(W, content) ==
    [count |-> W.count + 1, s |-> content.s, q |-> content.q]

(***************************************************************************)
(* ControlSpliner: control input at time t inside shot shotNr.             *)
(***************************************************************************)
evalSpline(W, splineType, t, shotNr) ==
    IF splineType = "PIECEWISE_LINEAR"
    THEN (W.q[shotNr] + (t - getShotStartTime(shotNr))
              * (W.q[shotNr + 1] + Modulus - W.q[shotNr])) % Modulus
    ELSE W.q[shotNr]

(***************************************************************************)
(* SensitivityIntegratorCT: the integrator owned by one ShotContainer.     *)
(* statesVer / linVer / sensVer record the update-counter value of the     *)
(* decision-vector content the held data was computed from (-1: none).     *)
(* calls is the list of integrator routines run by the operation in        *)
(* progress; ran / twice record the routines run since the last mutation   *)
(* of w and whether one of them ran more than once.                        *)
(***************************************************************************)
NewIntegrator(stepper) ==
    [stepper |-> stepper, linearSystem |-> FALSE, costFct |-> FALSE,
     states |-> <<>>, times |-> <<>>, inputs |-> <<>>,
     A |-> <<>>, B |-> <<>>,
     sensX0 |-> <<>>, sensU0 |-> <<>>, sensUf |-> <<>>,
     statesVer |-> -1, linVer |-> -1, sensVer |-> -1,
     calls |-> <<>>, ran |-> {}, twice |-> FALSE]

Log(ig, name) ==
    [ig EXCEPT !.calls = Append(@, name),
               !.twice = @ \/ (name \in ig.ran),
               !.ran = @ \cup {name}]

Min(a, b) == IF a <= b THEN a ELSE b

RECURSIVE SumTo(_, _)
SumTo(f, n) == IF n = 0 THEN 0 ELSE f[n] + SumTo(f, n - 1)

RECURSIVE ProdTo(_, _)
ProdTo(f, n) == IF n = 0 THEN 1 ELSE f[n] * ProdTo(f, n - 1)

Held(seq) == IF seq = <<>> THEN 0 ELSE seq[1]

\* one fixed step of the nonlinear dynamics under the spline control
StepDynamics(stepper, W, splineType, shotNr, x, t, dt) ==
    IF stepper = "RK4"
    THEN (x + dt * (evalSpline(W, splineType, t, shotNr)
                    + evalSpline(W, splineType, t + dt, shotNr))) % Modulus
    ELSE (x + dt * evalSpline(W, splineType, t, shotNr)) % Modulus

RECURSIVE Trajectory(_, _, _, _, _, _, _, _)
Trajectory(stepper, W, splineType, shotNr, x, t, nSteps, dt) ==
    IF nSteps = 0
    THEN <<x>>
    ELSE <<x>> \o Trajectory(stepper, W, splineType, shotNr,
                             StepDynamics(stepper, W, splineType, shotNr, x, t, dt),
                             t + dt, nSteps - 1, dt)

I_setLinearSystem(ig) == [ig EXCEPT !.linearSystem = TRUE]
I_setCostFunction(ig) == [ig EXCEPT !.costFct = TRUE]

\* integrate(initState, tStart, nSteps, dt, outStates, outTimes)
I_integrate(ig, W, splineType, shotNr, initState, tStart, nSteps, dt) ==
    LET xs == Trajectory(ig.stepper, W, splineType, shotNr, initState, tStart, nSteps, dt)
        ts == [k \in 1 .. (nSteps + 1) |-> tStart + (k - 1) * dt]
        us == [k \in 1 .. (nSteps + 1) |-> evalSpline(W, splineType, ts[k], shotNr)]
    IN  [Log(ig, "integrate") EXCEPT !.states = xs, !.times = ts, !.inputs = us,
                                     !.statesVer = W.count]

\* linearize(): A and B along the held trajectory
I_linearize(ig) ==
    [Log(ig, "linearize") EXCEPT
        !.A = [k \in DOMAIN ig.states |-> (ig.states[k] + 1) % Modulus],
        !.B = [k \in DOMAIN ig.states |-> (ig.inputs[k] + 1) % Modulus],
        !.linVer = ig.statesVer]

\* the sensitivity routines integrate from the value passed in
SensDX0(ig, acc, nSteps) ==
    (acc * ProdTo(ig.A, Min(nSteps, Len(ig.A)))) % Modulus
SensDU0(ig, acc, nSteps) ==
    (acc + SumTo(ig.B, Min(nSteps, Len(ig.B)))) % Modulus
SensDUf(ig, acc, nSteps) ==
    (acc + 2 * SumTo(ig.B, Min(nSteps, Len(ig.B)))) % Modulus

I_integrateSensitivityDX0(ig, acc, nSteps) ==
    [Log(ig, "integrateSensitivityDX0") EXCEPT
        !.sensX0 = <<SensDX0(ig, acc, nSteps)>>, !.sensVer = ig.linVer]
I_integrateSensitivityDU0(ig, acc, nSteps) ==
    [Log(ig, "integrateSensitivityDU0") EXCEPT
        !.sensU0 = <<SensDU0(ig, acc, nSteps)>>, !.sensVer = Min(@, ig.linVer)]
I_integrateSensitivityDUf(ig, acc, nSteps) ==
    [Log(ig, "integrateSensitivityDUf") EXCEPT
        !.sensUf = <<SensDUf(ig, acc, nSteps)>>, !.sensVer = Min(@, ig.linVer)]

\* the cost routines accumulate onto the value passed in
CostOut(ig, acc, nSteps) ==
    (acc + SumTo(ig.states, Min(nSteps, Len(ig.states)))
         + SumTo(ig.inputs, Min(nSteps, Len(ig.inputs)))) % Modulus
CostSensDX0(ig, acc, nSteps) ==
    (acc + SumTo(ig.states, Min(nSteps, Len(ig.states))) * Held(ig.sensX0)) % Modulus
CostSensDU0(ig, acc, nSteps) ==
    (acc + SumTo(ig.inputs, Min(nSteps, Len(ig.inputs))) * Held(ig.sensU0)
         + Min(nSteps, Len(ig.inputs))) % Modulus
CostSensDUf(ig, acc, nSteps) ==
    (acc + SumTo(ig.inputs, Min(nSteps, Len(ig.inputs))) * Held(ig.sensUf)
         + 2 * Min(nSteps, Len(ig.inputs))) % Modulus

I_integrateCost(ig) == Log(ig, "integrateCost")
I_integrateCostSensitivityDX0(ig) == Log(ig, "integrateCostSensitivityDX0")
I_integrateCostSensitivityDU0(ig) == Log(ig, "integrateCostSensitivityDU0")
I_integrateCostSensitivityDUf(ig) == Log(ig, "integrateCostSensitivityDUf")

I_clearStates(ig) ==
    [ig EXCEPT !.states = <<>>, !.times = <<>>, !.inputs = <<>>, !.statesVer = -1,
               !.calls = Append(@, "clearStates")]
I_clearSensitivities(ig) ==
    [ig EXCEPT !.sensX0 = <<>>, !.sensU0 = <<>>, !.sensUf = <<>>, !.sensVer = -1,
               !.calls = Append(@, "clearSensitivities")]
I_clearLinearization(ig) ==
    [ig EXCEPT !.A = <<>>, !.B = <<>>, !.linVer = -1,
               !.calls = Append(@, "clearLinearization")]

(***************************************************************************)
(* ShotContainer.                                                          *)
(* ver is bookkeeping of the model: per tier, the update-counter value of  *)
(* the decision-vector content the cached output was computed from (-1:    *)
(* never computed, or computed from cleared integrator data).  ctor lists  *)
(* the constructor's steps in the order they ran.                          *)
(***************************************************************************)
Settings == [N_ : {N_}, integrationType_ : IntegrationTypes, splineType_ : SplineTypes,
             costEvaluationType_ : CostEvaluationTypes, dt_sim_ : {dt_sim_}]

\* ret: what the last accessor call gave its caller (none called yet: NoReturn)
NoReturn == [kind |-> "none"]
Returned(v) == [kind |-> "value", v |-> v]
ReturnedArray(a) == [kind |-> "array", v |-> a]
\* back() of an empty vector is undefined: the call may crash or return any value
UndefinedBack == {[kind |-> "crash"]} \cup {[kind |-> "garbage", v |-> g] : g \in Scalars}

\* values the members without an initializer may hold after construction
Uninitialized ==
    {[dXdSiBack_ |-> g, dXdQiBack_ |-> g, dXdQip1Back_ |-> g] : g \in Vals}

\* the member-initializer list; dXdSiBack_, dXdQiBack_, dXdQip1Back_ have none
Members(shotNr, settings, garbage) ==
    [pc |-> "constructing", ctor |-> <<>>,
     shotNr_ |-> shotNr, settings_ |-> settings,
     integrationCount_ |-> 0, costIntegrationCount_ |-> 0,
     sensIntegrationCount_ |-> 0, costSensIntegrationCount_ |-> 0,
     x_history_ |-> <<>>, t_history_ |-> <<>>, u_history_ |-> <<>>,
     dXdSiBack_ |-> garbage.dXdSiBack_, dXdQiBack_ |-> garbage.dXdQiBack_,
     dXdQip1Back_ |-> garbage.dXdQip1Back_,
     cost_ |-> 0, costGradientSi_ |-> 0, costGradientQi_ |-> 0, costGradientQip1_ |-> 0,
     integratorCT_ |-> NewIntegrator("null"), nSteps_ |-> 0, tStart_ |-> 0,
     ret |-> NoReturn,
     ver |-> [x |-> -1, cost |-> -1, sens |-> -1, costSens |-> -1]]

\* nSteps_ = double(t_shot_end - tStart_) / double(dt_sim_) + 0.5, truncated
RoundedSteps(tStart, tEnd, dt) == (2 * (tEnd - tStart) + dt) \div (2 * dt)

\* a faulty variant: the integration scheme is examined before the shot index
ShotContainerCtor_SchemeFirst(shotNr, settings, garbage) ==
    LET m == Members(shotNr, settings, garbage)
    IN  IF settings.integrationType_ = "RK5"
        THEN [m EXCEPT !.pc = "throw_adaptive", !.ctor = <<"switchIntegrationType">>]
        ELSE IF settings.integrationType_ \notin {"EULER", "RK4"}
        THEN [m EXCEPT !.pc = "exit", !.ctor = <<"switchIntegrationType">>]
        ELSE IF shotNr >= settings.N_
        THEN [m EXCEPT !.pc = "throw_shot_index",
                       !.ctor = <<"switchIntegrationType", "makeIntegrator", "checkShotNr">>,
                       !.integratorCT_ = NewIntegrator(settings.integrationType_)]
        ELSE [m EXCEPT !.pc = "ok",
                       !.ctor = <<"switchIntegrationType", "makeIntegrator", "checkShotNr",
                                  "getShotStartTime", "getShotEndTime", "nSteps",
                                  "setLinearSystem">>,
                       !.tStart_ = getShotStartTime(shotNr),
                       !.nSteps_ = RoundedSteps(getShotStartTime(shotNr),
                                                getShotEndTime(shotNr), settings.dt_sim_),
                       !.integratorCT_ =
                           I_setLinearSystem(NewIntegrator(settings.integrationType_))]

ShotContainerCtor(shotNr, settings, garbage) ==
    LET m == Members(shotNr, settings, garbage)
    IN  IF shotNr >= settings.N_
        THEN [m EXCEPT !.pc = "throw_shot_index", !.ctor = <<"checkShotNr">>]
        ELSE IF settings.integrationType_ = "RK5"
        THEN [m EXCEPT !.pc = "throw_adaptive",
                       !.ctor = <<"checkShotNr", "switchIntegrationType">>]
        ELSE IF settings.integrationType_ \notin {"EULER", "RK4"}
        THEN [m EXCEPT !.pc = "exit",
                       !.ctor = <<"checkShotNr", "switchIntegrationType">>]
        ELSE LET tStart == getShotStartTime(shotNr)
                 tEnd == getShotEndTime(shotNr)
                 ig0 == I_setLinearSystem(NewIntegrator(settings.integrationType_))
                 full == settings.costEvaluationType_ = "FULL"
             IN  [m EXCEPT !.pc = "ok",
                           !.ctor = <<"checkShotNr", "switchIntegrationType",
                                      "makeIntegrator", "getShotStartTime",
                                      "getShotEndTime", "nSteps", "setLinearSystem">>
                                    \o (IF full THEN <<"setCostFunction">> ELSE <<>>),
                           !.tStart_ = tStart,
                           !.nSteps_ = RoundedSteps(tStart, tEnd, settings.dt_sim_),
                           !.integratorCT_ = IF full THEN I_setCostFunction(ig0) ELSE ig0]

\* v bound to x in F(x): the value of a statement's result, named once
Eval(v, F(_)) == CHOOSE r \in {F(x) : x \in {v}} : TRUE

\* a faulty variant: the counter comparison is dropped, every call re-integrates
integrateShot_Always(s0, W) ==
    Eval(s0, LAMBDA s :
        Eval(I_integrate(s.integratorCT_, W, s.settings_.splineType_, s.shotNr_,
                         getOptimizedState(W, s.shotNr_), s.tStart_, s.nSteps_,
                         s.settings_.dt_sim_),
             LAMBDA ig :
                [s EXCEPT !.integrationCount_ = getUpdateCount(W),
                          !.integratorCT_ = ig,
                          !.x_history_ = ig.states, !.t_history_ = ig.times,
                          !.ver.x = ig.statesVer]))

integrateShot(s0, W) ==
    Eval(s0, LAMBDA s :
        IF getUpdateCount(W) # s.integrationCount_
        THEN LET s1 == [s EXCEPT !.integrationCount_ = getUpdateCount(W)]
                 initState == getOptimizedState(W, s.shotNr_)
             IN  Eval(I_integrate(s1.integratorCT_, W, s.settings_.splineType_,
                                  s.shotNr_, initState, s.tStart_, s.nSteps_,
                                  s.settings_.dt_sim_),
                      LAMBDA ig :
                         [s1 EXCEPT !.integratorCT_ = ig,
                                    !.x_history_ = ig.states, !.t_history_ = ig.times,
                                    !.ver.x = ig.statesVer])
        ELSE s)

\* a faulty variant: the cost tier integrates without first bringing the shot up to date
integrateCost_NoShot(s0, W) ==
    Eval(s0, LAMBDA s :
        IF getUpdateCount(W) # s.costIntegrationCount_
        THEN [s EXCEPT !.costIntegrationCount_ = getUpdateCount(W),
                       !.cost_ = CostOut(s.integratorCT_, 0, s.nSteps_),
                       !.integratorCT_ = I_integrateCost(s.integratorCT_),
                       !.ver.cost = s.integratorCT_.statesVer]
        ELSE s)

\* a faulty variant: the cost is accumulated onto the value of the previous iteration
integrateCost_NoZero(s0, W) ==
    Eval(s0, LAMBDA s :
        IF getUpdateCount(W) # s.costIntegrationCount_
        THEN Eval(integrateShot([s EXCEPT !.costIntegrationCount_ = getUpdateCount(W)], W),
                  LAMBDA s2 :
                     LET ig == s2.integratorCT_
                     IN  [s2 EXCEPT !.cost_ = CostOut(ig, s2.cost_, s2.nSteps_),
                                    !.integratorCT_ = I_integrateCost(ig),
                                    !.ver.cost = ig.statesVer])
        ELSE s)

integrateCost(s0, W) ==
    Eval(s0, LAMBDA s :
        IF getUpdateCount(W) # s.costIntegrationCount_
        THEN Eval(integrateShot([s EXCEPT !.costIntegrationCount_ = getUpdateCount(W)], W),
                  LAMBDA s2 :
                     LET s3 == [s2 EXCEPT !.cost_ = 0]
                         ig == s3.integratorCT_
                     IN  [s3 EXCEPT !.cost_ = CostOut(ig, s3.cost_, s3.nSteps_),
                                    !.integratorCT_ = I_integrateCost(ig),
                                    !.ver.cost = ig.statesVer])
        ELSE s)

\* a faulty variant: the end-control sensitivity is integrated for every spline type
integrateSensitivities_AlwaysDUf(s0, W) ==
    Eval(s0, LAMBDA s :
        IF getUpdateCount(W) # s.sensIntegrationCount_
        THEN Eval(integrateShot([s EXCEPT !.sensIntegrationCount_ = getUpdateCount(W)], W),
                  LAMBDA s2 :
           LET s3 == [s2 EXCEPT !.dXdSiBack_ = 1, !.dXdQiBack_ = 0, !.dXdQip1Back_ = 0]
           IN  Eval(I_linearize(s3.integratorCT_), LAMBDA ig1 :
               Eval(I_integrateSensitivityDX0(ig1, s3.dXdSiBack_, s3.nSteps_), LAMBDA ig2 :
               Eval(I_integrateSensitivityDU0(ig2, s3.dXdQiBack_, s3.nSteps_), LAMBDA ig3 :
               Eval(I_integrateSensitivityDUf(ig3, s3.dXdQip1Back_, s3.nSteps_), LAMBDA ig4 :
                    [s3 EXCEPT !.dXdSiBack_ = Held(ig2.sensX0),
                               !.dXdQiBack_ = Held(ig3.sensU0),
                               !.dXdQip1Back_ = Held(ig4.sensUf),
                               !.integratorCT_ = ig4,
                               !.ver.sens = ig4.sensVer])))))
        ELSE s)

integrateSensitivities(s0, W) ==
    Eval(s0, LAMBDA s :
        IF getUpdateCount(W) # s.sensIntegrationCount_
        THEN Eval(integrateShot([s EXCEPT !.sensIntegrationCount_ = getUpdateCount(W)], W),
                  LAMBDA s2 :
           LET s3 == [s2 EXCEPT !.dXdSiBack_ = 1, !.dXdQiBack_ = 0]
           IN  Eval(I_linearize(s3.integratorCT_), LAMBDA ig1 :
               Eval(I_integrateSensitivityDX0(ig1, s3.dXdSiBack_, s3.nSteps_), LAMBDA ig2 :
               Eval(I_integrateSensitivityDU0(ig2, s3.dXdQiBack_, s3.nSteps_), LAMBDA ig3 :
                 LET s4 == [s3 EXCEPT !.dXdSiBack_ = Held(ig2.sensX0),
                                      !.dXdQiBack_ = Held(ig3.sensU0),
                                      !.integratorCT_ = ig3,
                                      !.ver.sens = ig3.sensVer]
                 IN  IF s.settings_.splineType_ = "PIECEWISE_LINEAR"
                     THEN LET s5 == [s4 EXCEPT !.dXdQip1Back_ = 0]
                          IN  Eval(I_integrateSensitivityDUf(ig3, s5.dXdQip1Back_, s5.nSteps_),
                                   LAMBDA ig4 :
                                      [s5 EXCEPT !.dXdQip1Back_ = Held(ig4.sensUf),
                                                 !.integratorCT_ = ig4,
                                                 !.ver.sens = ig4.sensVer])
                     ELSE s4))))
        ELSE s)

\* a faulty variant: the cost-sensitivity tier does not ensure the sensitivity tier first
integrateCostSensitivities_NoSens(s0, W) ==
    Eval(s0, LAMBDA s :
        IF getUpdateCount(W) # s.costSensIntegrationCount_
        THEN LET ig == s.integratorCT_
             IN  [s EXCEPT !.costSensIntegrationCount_ = getUpdateCount(W),
                           !.costGradientSi_ = CostSensDX0(ig, 0, s.nSteps_),
                           !.costGradientQi_ = CostSensDU0(ig, 0, s.nSteps_),
                           !.integratorCT_ =
                               I_integrateCostSensitivityDU0(I_integrateCostSensitivityDX0(ig)),
                           !.ver.costSens = Min(ig.statesVer, ig.sensVer)]
        ELSE s)

integrateCostSensitivities(s0, W) ==
    Eval(s0, LAMBDA s :
        IF getUpdateCount(W) # s.costSensIntegrationCount_
        THEN Eval(integrateSensitivities(
                      [s EXCEPT !.costSensIntegrationCount_ = getUpdateCount(W)], W),
                  LAMBDA s2 :
           LET s3 == [s2 EXCEPT !.costGradientSi_ = 0, !.costGradientQi_ = 0]
               ig == s3.integratorCT_
               s4 == [s3 EXCEPT
                        !.costGradientSi_ = CostSensDX0(ig, s3.costGradientSi_, s3.nSteps_),
                        !.costGradientQi_ = CostSensDU0(ig, s3.costGradientQi_, s3.nSteps_),
                        !.integratorCT_ =
                            I_integrateCostSensitivityDU0(I_integrateCostSensitivityDX0(ig)),
                        !.ver.costSens = Min(ig.statesVer, ig.sensVer)]
           IN  IF s.settings_.splineType_ = "PIECEWISE_LINEAR"
               THEN Eval(s4, LAMBDA s5 :
                      [s5 EXCEPT !.costGradientQip1_ = CostSensDUf(ig, 0, s5.nSteps_),
                                 !.integratorCT_ = I_integrateCostSensitivityDUf(@)])
               ELSE s4)
        ELSE s)

\* integrateShot() when integrate() raises after k stored points: the counter
\* was assigned before the call, the histories hold what integrate() had
\* written, and the exception leaves the method
integrateShotRaising(s0, W, k) ==
    Eval(s0, LAMBDA s :
        LET s1 == [s EXCEPT !.integrationCount_ = getUpdateCount(W)]
            initState == getOptimizedState(W, s.shotNr_)
            full == I_integrate(s1.integratorCT_, W, s.settings_.splineType_,
                                s.shotNr_, initState, s.tStart_, s.nSteps_,
                                s.settings_.dt_sim_)
        IN  [s1 EXCEPT !.integratorCT_ =
                           [Log(@, "integrate") EXCEPT
                               !.states = SubSeq(full.states, 1, k),
                               !.times = SubSeq(full.times, 1, k),
                               !.inputs = SubSeq(full.inputs, 1, k),
                               !.statesVer = -1],
                       !.x_history_ = SubSeq(full.states, 1, k),
                       !.t_history_ = SubSeq(full.times, 1, k),
                       !.ver.x = -1])

\* integrateSensitivities() when linearize() raises: the counter was assigned,
\* integrateShot() has run and the accumulators were seeded before the call
integrateSensitivitiesRaising(s0, W) ==
    Eval(s0, LAMBDA s :
        Eval(integrateShot([s EXCEPT !.sensIntegrationCount_ = getUpdateCount(W)], W),
             LAMBDA s2 :
                [s2 EXCEPT !.dXdSiBack_ = 1, !.dXdQiBack_ = 0,
                           !.integratorCT_ = Log(@, "linearize"),
                           !.ver.sens = -1]))

(***************************************************************************)
(* The dependent tiers in the order the design document gives them: first  *)
(* the prerequisite tier is brought up to date, then the tier's own        *)
(* counter is compared and, when stale, the tier recomputed.               *)
(***************************************************************************)
integrateCostPrerequisiteFirst(s0, W) ==
    Eval(integrateShot(s0, W), LAMBDA s :
        IF getUpdateCount(W) # s.costIntegrationCount_
        THEN LET s3 == [s EXCEPT !.costIntegrationCount_ = getUpdateCount(W),
                                 !.cost_ = 0]
                 ig == s3.integratorCT_
             IN  [s3 EXCEPT !.cost_ = CostOut(ig, s3.cost_, s3.nSteps_),
                            !.integratorCT_ = I_integrateCost(ig),
                            !.ver.cost = ig.statesVer]
        ELSE s)

integrateSensitivitiesPrerequisiteFirst(s0, W) ==
    Eval(integrateShot(s0, W), LAMBDA s :
        IF getUpdateCount(W) # s.sensIntegrationCount_
        THEN
           LET s3 == [s EXCEPT !.sensIntegrationCount_ = getUpdateCount(W),
                               !.dXdSiBack_ = 1, !.dXdQiBack_ = 0]
           IN  Eval(I_linearize(s3.integratorCT_), LAMBDA ig1 :
               Eval(I_integrateSensitivityDX0(ig1, s3.dXdSiBack_, s3.nSteps_), LAMBDA ig2 :
               Eval(I_integrateSensitivityDU0(ig2, s3.dXdQiBack_, s3.nSteps_), LAMBDA ig3 :
                 LET s4 == [s3 EXCEPT !.dXdSiBack_ = Held(ig2.sensX0),
                                      !.dXdQiBack_ = Held(ig3.sensU0),
                                      !.integratorCT_ = ig3,
                                      !.ver.sens = ig3.sensVer]
                 IN  IF s.settings_.splineType_ = "PIECEWISE_LINEAR"
                     THEN LET s5 == [s4 EXCEPT !.dXdQip1Back_ = 0]
                          IN  Eval(I_integrateSensitivityDUf(ig3, s5.dXdQip1Back_, s5.nSteps_),
                                   LAMBDA ig4 :
                                      [s5 EXCEPT !.dXdQip1Back_ = Held(ig4.sensUf),
                                                 !.integratorCT_ = ig4,
                                                 !.ver.sens = ig4.sensVer])
                     ELSE s4)))
        ELSE s)

integrateCostSensitivitiesPrerequisiteFirst(s0, W) ==
    Eval(integrateSensitivitiesPrerequisiteFirst(s0, W), LAMBDA s :
        IF getUpdateCount(W) # s.costSensIntegrationCount_
        THEN
           LET s3 == [s EXCEPT !.costSensIntegrationCount_ = getUpdateCount(W),
                               !.costGradientSi_ = 0, !.costGradientQi_ = 0]
               ig == s3.integratorCT_
               s4 == [s3 EXCEPT
                        !.costGradientSi_ = CostSensDX0(ig, s3.costGradientSi_, s3.nSteps_),
                        !.costGradientQi_ = CostSensDU0(ig, s3.costGradientQi_, s3.nSteps_),
                        !.integratorCT_ =
                            I_integrateCostSensitivityDU0(I_integrateCostSensitivityDX0(ig)),
                        !.ver.costSens = Min(ig.statesVer, ig.sensVer)]
           IN  IF s.settings_.splineType_ = "PIECEWISE_LINEAR"
               THEN Eval(s4, LAMBDA s5 :
                      [s5 EXCEPT !.costGradientQip1_ = CostSensDUf(ig, 0, s5.nSteps_),
                                 !.integratorCT_ = I_integrateCostSensitivityDUf(@)])
               ELSE s4
        ELSE s)

\* a faulty variant: reset() also wipes the container's own caches
reset_ClearsCaches(s) ==
    [s EXCEPT !.integratorCT_ =
                  I_clearLinearization(I_clearSensitivities(I_clearStates(@))),
              !.x_history_ = <<>>, !.t_history_ = <<>>,
              !.cost_ = 0, !.costGradientSi_ = 0, !.costGradientQi_ = 0,
              !.dXdSiBack_ = 1, !.dXdQiBack_ = 0]

\* a faulty variant: reset() also returns the tier counters to their initial value
reset_ResetsCounters(s) ==
    [s EXCEPT !.integratorCT_ =
                  I_clearLinearization(I_clearSensitivities(I_clearStates(@))),
              !.integrationCount_ = 0, !.costIntegrationCount_ = 0,
              !.sensIntegrationCount_ = 0, !.costSensIntegrationCount_ = 0]

reset(s) ==
    [s EXCEPT !.integratorCT_ =
                  I_clearLinearization(I_clearSensitivities(I_clearStates(@)))]

(***************************************************************************)
(* Accessors: each gives the set of outcomes its call can have.            *)
(***************************************************************************)
getStateIntegrated(s) ==
    IF s.x_history_ # <<>> THEN {Returned(s.x_history_[Len(s.x_history_)])}
    ELSE UndefinedBack
getIntegrationTimeFinal(s) ==
    IF s.t_history_ # <<>> THEN {Returned(s.t_history_[Len(s.t_history_)])}
    ELSE UndefinedBack
getdXdSiIntegrated(s) == {Returned(s.dXdSiBack_)}
getdXdQiIntegrated(s) == {Returned(s.dXdQiBack_)}
getdXdQip1Integrated(s) == {Returned(s.dXdQip1Back_)}
getXHistory(s) == {ReturnedArray(s.x_history_)}
getTHistory(s) == {ReturnedArray(s.t_history_)}
getCostIntegrated(s) == {Returned(s.cost_)}
getdLdSiIntegrated(s) == {Returned(s.costGradientSi_)}
getdLdQiIntegrated(s) == {Returned(s.costGradientQi_)}
getdLdQip1Integrated(s) == {Returned(s.costGradientQip1_)}

\* a faulty variant: the previous control history is not cleared first
getUHistory_NoClear(s, W) ==
    [s EXCEPT !.u_history_ =
        @ \o [k \in 1 .. Len(s.t_history_) |->
                 evalSpline(W, s.settings_.splineType_, s.t_history_[k], s.shotNr_)]]

\* u_history_.clear(), then one evalSpline(t_history_[t], shotNr_) per time stamp
getUHistory(s, W) ==
    [s EXCEPT !.u_history_ =
        [k \in 1 .. Len(s.t_history_) |->
            evalSpline(W, s.settings_.splineType_, s.t_history_[k], s.shotNr_)]]

(***************************************************************************)
(* LQOCProblem: N stages of linearized dynamics and quadratic cost, with   *)
(* optional control and state box constraints.  A stage is 0 when zeroed   *)
(* and 1 when set from the linear-quadratic problem.                       *)
(***************************************************************************)
LqocN == 5

LowerBounds == {-1}
UpperBounds == {1}
Boxes == [lb : LowerBounds, ub : UpperBounds]
NoBox == [lb |-> 0, ub |-> -1]

\* since: the operations called since the last setZero (or construction);
\* zeroed, hadControlBox: whether setZero was ever called, and whether the
\* problem carried control box constraints when it last was
LQOCProblem(N) ==
    [N |-> N,
     stages |-> [k \in 1 .. N |-> 0],
     u_box |-> NoBox, x_box |-> NoBox,
     since |-> {}, zeroed |-> FALSE, hadControlBox |-> FALSE]

isControlBoxConstrained(p) == p.u_box # NoBox
isStateBoxConstrained(p) == p.x_box # NoBox
isGeneralConstrained(p) == FALSE
isConstrained(p) ==
    isControlBoxConstrained(p) \/ isStateBoxConstrained(p) \/ isGeneralConstrained(p)

setFromTimeInvariantLinearQuadraticProblem(p) ==
    [p EXCEPT !.stages = [k \in 1 .. p.N |-> 1],
              !.since = @ \cup {"setFromTimeInvariantLinearQuadraticProblem"}]

setControlBoxConstraints_AlsoState(p, box) ==
    [p EXCEPT !.u_box = box, !.x_box = box,
              !.since = @ \cup {"setControlBoxConstraints"}]

setControlBoxConstraints(p, box) ==
    [p EXCEPT !.u_box = box,
              !.since = @ \cup {"setControlBoxConstraints"}]

setStateBoxConstraints(p, box) ==
    [p EXCEPT !.x_box = box,
              !.since = @ \cup {"setStateBoxConstraints"}]

setZero_KeepsConstraints(p) ==
    [p EXCEPT !.stages = [k \in 1 .. p.N |-> 0],
              !.since = {}, !.zeroed = TRUE,
              !.hadControlBox = isControlBoxConstrained(p)]

setZero(p) ==
    [p EXCEPT !.stages = [k \in 1 .. p.N |-> 0],
              !.u_box = NoBox, !.x_box = NoBox,
              !.since = {}, !.zeroed = TRUE,
              !.hadControlBox = isControlBoxConstrained(p)]

(***************************************************************************)
(* LQOCSolver: a solver holds a reference to the problem bound by          *)
(* setProblem; solve reads the problem as it is when solve runs.           *)
(* outcome: "none" before the first solve, "solved" after a normal return, *)
(* "threw" after an exception; boundConstrained: whether the bound problem *)
(* carried constraints when solve ran.                                     *)
(***************************************************************************)
Strategies == {"HPIPMInterface", "GNRiccatiSolver"}
\* solution: the state trajectory (N+1 vectors) and the control trajectory and
\* feedback gains (N each) of the last solve, with the problem data they were
\* built from; empty before the first solve and after a failed one
NoSolution == [x |-> <<>>, u |-> <<>>, K |-> <<>>, of |-> "none"]
LQOCSolver ==
    [problem |-> 0, outcome |-> "none", boundConstrained |-> FALSE,
     solution |-> NoSolution]

Solution(p) ==
    [x |-> [k \in 1 .. (p.N + 1) |-> IF k = 1 THEN 1 ELSE p.stages[k - 1]],
     u |-> [k \in 1 .. p.N |-> p.stages[k]],
     K |-> [k \in 1 .. p.N |-> p.stages[k]],
     of |-> [stages |-> p.stages,
             controlBox |-> isControlBoxConstrained(p),
             stateBox |-> isStateBoxConstrained(p)]]

setProblem(solver, p) == [solver EXCEPT !.problem = p]

\* the outcomes of solve: the interior-point strategy returns or reports a
\* solve failure; the Riccati recursion ignores the constraints and returns,
\* or throws when its linear-algebra solve fails on a constrained problem
solveOutcomes(strategy, p) ==
    IF strategy = "HPIPMInterface" THEN {"solved", "threw"}
    ELSE IF isConstrained(p) THEN {"solved", "threw"}
    ELSE {"solved"}

\* a faulty variant: a solution already present is kept instead of rebuilt
solve_KeepsSolution(solver, p, outcome) ==
    [solver EXCEPT !.outcome = outcome, !.boundConstrained = isConstrained(p),
                   !.solution = IF @ # NoSolution THEN @
                                ELSE IF outcome = "solved" THEN Solution(p)
                                ELSE NoSolution]

solve(solver, p, outcome) ==
    [solver EXCEPT !.outcome = outcome, !.boundConstrained = isConstrained(p),
                   !.solution = IF outcome = "solved" THEN Solution(p) ELSE NoSolution]

LqocInit ==
    [problem |-> [i \in {1, 2} |-> LQOCProblem(LqocN)],
     solver |-> [st \in Strategies |-> LQOCSolver]]

(***************************************************************************)
(* The state machine: a DecisionVector shared by the ShotContainers of sc. *)
(***************************************************************************)
vars == <<w, sc, alone, procExited, lqoc>>

NoContainer == [pc |-> "new"]

Constructed(c) == sc[c].pc = "ok"

\* start of an operation: the per-operation call list is emptied
Begin(s) == [s EXCEPT !.integratorCT_.calls = <<>>]

\* a faulty variant: the histories are shared between the containers instead of owned by each
Store_SharedHistory(S, c, new) ==
    [d \in DOMAIN S |->
        IF d = c THEN new
        ELSE IF S[d].pc = "ok"
             THEN [S[d] EXCEPT !.x_history_ = new.x_history_,
                               !.t_history_ = new.t_history_]
             ELSE S[d]]

\* every member is a private member of its container
Store(S, c, new) == [S EXCEPT ![c] = new]

\* after a mutation of w no routine has yet run for the new counter value
NewCounterValue(s) ==
    IF s.pc = "ok"
    THEN [s EXCEPT !.integratorCT_.ran = {}, !.integratorCT_.twice = FALSE]
    ELSE s

InitW == [count |-> 0, s |-> [i \in 0 .. (N_ - 1) |-> 0], q |-> [i \in 0 .. N_ |-> 0]]

ValidSettings == {st \in Settings : st.integrationType_ \in {"EULER", "RK4"}}

\* the state after construction of one container for a shot of the grid
Init ==
    /\ w = InitW
    /\ \E shotNr \in 0 .. (N_ - 1), settings \in ValidSettings, garbage \in Uninitialized :
          sc = [c \in {1} |-> ShotContainerCtor(shotNr, settings, garbage)]
    /\ alone = sc
    /\ procExited = FALSE
    /\ lqoc = LqocInit

\* alone[c] is container c as it would be had only its own operations run,
\* each on alone[c] itself; sc[c] is the container in the interleaved run
Construct(c) ==
    /\ ~procExited
    /\ sc[c].pc = "new"
    /\ \E shotNr \in 0 .. N_, settings \in Settings, garbage \in Uninitialized :
          LET new == ShotContainerCtor(shotNr, settings, garbage)
          IN  /\ sc' = Store(sc, c, new)
              /\ alone' = [alone EXCEPT ![c] = new]
              /\ procExited' = (new.pc = "exit")
    /\ UNCHANGED <<w, lqoc>>

\* the shots that have a container, and the decision variables those containers read
Shots == {sc[c].shotNr_ : c \in {d \in DOMAIN sc : sc[d].pc = "ok"}}
ReadBySomeShot(content) ==
    /\ \A i \in DOMAIN content.s : i \notin Shots => content.s[i] = 0
    /\ \A j \in DOMAIN content.q : (j \notin Shots /\ (j - 1) \notin Shots) => content.q[j] = 0

\* the outer loop rewrites the decision vector (entries no container reads stay 0)
Mutate ==
    /\ ~procExited
    /\ w.count < MaxCount
    /\ \E content \in Contents :
          /\ ReadBySomeShot(content)
          /\ w' = setOptimizationVars(w, content)
    /\ sc' = [c \in DOMAIN sc |-> NewCounterValue(sc[c])]
    /\ alone' = [c \in DOMAIN alone |-> NewCounterValue(alone[c])]
    /\ UNCHANGED <<procExited, lqoc>>

IntegrateShot(c) ==
    /\ ~procExited /\ Constructed(c)
    /\ sc' = Store(sc, c, integrateShot(Begin(sc[c]), w))
    /\ alone' = [alone EXCEPT ![c] = integrateShot(Begin(alone[c]), w)]
    /\ UNCHANGED <<w, procExited, lqoc>>

IntegrateCost(c) ==
    /\ ~procExited /\ Constructed(c)
    /\ sc' = Store(sc, c, integrateCost(Begin(sc[c]), w))
    /\ alone' = [alone EXCEPT ![c] = integrateCost(Begin(alone[c]), w)]
    /\ UNCHANGED <<w, procExited, lqoc>>

IntegrateSensitivities(c) ==
    /\ ~procExited /\ Constructed(c)
    /\ sc' = Store(sc, c, integrateSensitivities(Begin(sc[c]), w))
    /\ alone' = [alone EXCEPT ![c] = integrateSensitivities(Begin(alone[c]), w)]
    /\ UNCHANGED <<w, procExited, lqoc>>

IntegrateCostSensitivities(c) ==
    /\ ~procExited /\ Constructed(c)
    /\ sc' = Store(sc, c, integrateCostSensitivities(Begin(sc[c]), w))
    /\ alone' = [alone EXCEPT ![c] = integrateCostSensitivities(Begin(alone[c]), w)]
    /\ UNCHANGED <<w, procExited, lqoc>>

Reset(c) ==
    /\ ~procExited /\ Constructed(c)
    /\ sc' = Store(sc, c, reset(Begin(sc[c])))
    /\ alone' = [alone EXCEPT ![c] = reset(Begin(alone[c]))]
    /\ UNCHANGED <<w, procExited, lqoc>>

Next ==
    \/ Mutate
    \/ \E c \in DOMAIN sc : IntegrateShot(c)
    \/ \E c \in DOMAIN sc : IntegrateCost(c)
    \/ \E c \in DOMAIN sc : IntegrateSensitivities(c)
    \/ \E c \in DOMAIN sc : IntegrateCostSensitivities(c)
    \/ \E c \in DOMAIN sc : Reset(c)

Spec == Init /\ [][Next]_vars

(***************************************************************************)
(* Construction as a step: the constructor runs on a container not yet     *)
(* built, with any shot index and any settings.                            *)
(***************************************************************************)
InitCtor ==
    /\ w = InitW
    /\ sc = [c \in {1} |-> NoContainer]
    /\ alone = sc
    /\ procExited = FALSE
    /\ lqoc = LqocInit

NextCtor ==
    \/ Mutate
    \/ \E c \in DOMAIN sc : Construct(c)
    \/ \E c \in DOMAIN sc : IntegrateShot(c)
    \/ \E c \in DOMAIN sc : IntegrateCost(c)

SpecCtor == InitCtor /\ [][NextCtor]_vars

(***************************************************************************)
(* One integration phase of two containers, for shots 0 and 1, built with  *)
(* the same settings and sharing w: the outer loop has written w once and  *)
(* does not write it during the phase.                                     *)
(***************************************************************************)
TwoShotSettings ==
    {st \in ValidSettings : st.integrationType_ = "EULER" /\ st.costEvaluationType_ = "FULL"}

InitTwo ==
    /\ \E content \in Contents : w = setOptimizationVars(InitW, content)
    /\ \E settings \in TwoShotSettings, garbage \in Uninitialized :
          sc = [c \in {1, 2} |-> ShotContainerCtor(c - 1, settings, garbage)]
    /\ alone = sc
    /\ procExited = FALSE
    /\ lqoc = LqocInit

NextTwo ==
    \/ \E c \in DOMAIN sc : IntegrateShot(c)
    \/ \E c \in DOMAIN sc : IntegrateCost(c)
    \/ \E c \in DOMAIN sc : IntegrateSensitivities(c)
    \/ \E c \in DOMAIN sc : IntegrateCostSensitivities(c)

SpecTwo == InitTwo /\ [][NextTwo]_vars

(***************************************************************************)
(* The accessors of one container, called at any time between tier calls   *)
(* and mutations of w.                                                     *)
(***************************************************************************)
\* the accessor's caller receives one of the outcomes; a crash ends the process
Return(c, outcomes) ==
    /\ ~procExited /\ Constructed(c)
    /\ \E r \in outcomes :
          /\ sc' = Store(sc, c, [sc[c] EXCEPT !.ret = r])
          /\ alone' = [alone EXCEPT ![c].ret = r]
          /\ procExited' = (r.kind = "crash")
    /\ UNCHANGED <<w, lqoc>>

GetStateIntegrated(c) == Return(c, getStateIntegrated(sc[c]))
GetIntegrationTimeFinal(c) == Return(c, getIntegrationTimeFinal(sc[c]))
GetdXdSiIntegrated(c) == Return(c, getdXdSiIntegrated(sc[c]))
GetdXdQiIntegrated(c) == Return(c, getdXdQiIntegrated(sc[c]))
GetdXdQip1Integrated(c) == Return(c, getdXdQip1Integrated(sc[c]))
GetXHistory(c) == Return(c, getXHistory(sc[c]))
GetTHistory(c) == Return(c, getTHistory(sc[c]))
GetCostIntegrated(c) == Return(c, getCostIntegrated(sc[c]))
GetdLdSiIntegrated(c) == Return(c, getdLdSiIntegrated(sc[c]))
GetdLdQiIntegrated(c) == Return(c, getdLdQiIntegrated(sc[c]))
GetdLdQip1Integrated(c) == Return(c, getdLdQip1Integrated(sc[c]))

GetUHistory(c) ==
    /\ ~procExited /\ Constructed(c)
    /\ LET new == getUHistory(sc[c], w)
           old == getUHistory(alone[c], w)
       IN  /\ sc' = Store(sc, c, [new EXCEPT !.ret = ReturnedArray(new.u_history_)])
           /\ alone' = [alone EXCEPT ![c] = [old EXCEPT !.ret = ReturnedArray(old.u_history_)]]
    /\ UNCHANGED <<w, procExited, lqoc>>

NextAccess ==
    \/ Mutate
    \/ \E c \in DOMAIN sc : IntegrateShot(c)
    \/ \E c \in DOMAIN sc : IntegrateCostSensitivities(c)
    \/ \E c \in DOMAIN sc : GetStateIntegrated(c)
    \/ \E c \in DOMAIN sc : GetIntegrationTimeFinal(c)
    \/ \E c \in DOMAIN sc : GetdXdSiIntegrated(c)
    \/ \E c \in DOMAIN sc : GetdXdQiIntegrated(c)
    \/ \E c \in DOMAIN sc : GetdXdQip1Integrated(c)
    \/ \E c \in DOMAIN sc : GetXHistory(c)
    \/ \E c \in DOMAIN sc : GetUHistory(c)
    \/ \E c \in DOMAIN sc : GetTHistory(c)
    \/ \E c \in DOMAIN sc : GetCostIntegrated(c)
    \/ \E c \in DOMAIN sc : GetdLdSiIntegrated(c)
    \/ \E c \in DOMAIN sc : GetdLdQiIntegrated(c)
    \/ \E c \in DOMAIN sc : GetdLdQip1Integrated(c)

SpecAccess == Init /\ [][NextAccess]_vars

(***************************************************************************)
(* Tier calls during which an integrator routine raises.  The integrator   *)
(* is reached only when the tier's counter differs from w's.               *)
(***************************************************************************)
IntegrateShotRaises(c) ==
    /\ ~procExited /\ Constructed(c)
    /\ getUpdateCount(w) # sc[c].integrationCount_
    /\ \E k \in 0 .. sc[c].nSteps_ :
          /\ sc' = Store(sc, c, integrateShotRaising(Begin(sc[c]), w, k))
          /\ alone' = [alone EXCEPT ![c] = integrateShotRaising(Begin(alone[c]), w, k)]
    /\ UNCHANGED <<w, procExited, lqoc>>

IntegrateSensitivitiesRaises(c) ==
    /\ ~procExited /\ Constructed(c)
    /\ getUpdateCount(w) # sc[c].sensIntegrationCount_
    /\ sc' = Store(sc, c, integrateSensitivitiesRaising(Begin(sc[c]), w))
    /\ alone' = [alone EXCEPT ![c] = integrateSensitivitiesRaising(Begin(alone[c]), w)]
    /\ UNCHANGED <<w, procExited, lqoc>>

NextRaise ==
    \/ Mutate
    \/ \E c \in DOMAIN sc : IntegrateShot(c)
    \/ \E c \in DOMAIN sc : IntegrateSensitivities(c)
    \/ \E c \in DOMAIN sc : IntegrateShotRaises(c)
    \/ \E c \in DOMAIN sc : IntegrateSensitivitiesRaises(c)

SpecRaise == Init /\ [][NextRaise]_vars

(***************************************************************************)
(* The linear-quadratic subproblem: two problems of LqocN stages and one   *)
(* solver of each strategy.                                                *)
(***************************************************************************)
InitLQOC ==
    /\ w = InitW
    /\ sc = <<>>
    /\ alone = <<>>
    /\ procExited = FALSE
    /\ lqoc = LqocInit

Problems == DOMAIN lqoc.problem

SetFromTimeInvariantLinearQuadraticProblem(i) ==
    /\ lqoc' = [lqoc EXCEPT !.problem[i] = setFromTimeInvariantLinearQuadraticProblem(@)]
    /\ UNCHANGED <<w, sc, alone, procExited>>

SetControlBoxConstraints(i) ==
    /\ \E box \in Boxes : lqoc' = [lqoc EXCEPT !.problem[i] = setControlBoxConstraints(@, box)]
    /\ UNCHANGED <<w, sc, alone, procExited>>

SetStateBoxConstraints(i) ==
    /\ \E box \in Boxes : lqoc' = [lqoc EXCEPT !.problem[i] = setStateBoxConstraints(@, box)]
    /\ UNCHANGED <<w, sc, alone, procExited>>

SetZero(i) ==
    /\ lqoc' = [lqoc EXCEPT !.problem[i] = setZero(@)]
    /\ UNCHANGED <<w, sc, alone, procExited>>

SetProblem(st, i) ==
    /\ lqoc' = [lqoc EXCEPT !.solver[st] = setProblem(@, i)]
    /\ UNCHANGED <<w, sc, alone, procExited>>

Solve(st) ==
    /\ lqoc.solver[st].problem \in Problems
    /\ LET p == lqoc.problem[lqoc.solver[st].problem]
       IN  \E outcome \in solveOutcomes(st, p) :
              lqoc' = [lqoc EXCEPT !.solver[st] = solve(@, p, outcome)]
    /\ UNCHANGED <<w, sc, alone, procExited>>

NextLQOC ==
    \/ \E i \in Problems : SetFromTimeInvariantLinearQuadraticProblem(i)
    \/ \E i \in Problems : SetControlBoxConstraints(i)
    \/ \E i \in Problems : SetStateBoxConstraints(i)
    \/ \E i \in Problems : SetZero(i)
    \/ \E st \in Strategies, i \in Problems : SetProblem(st, i)
    \/ \E st \in Strategies : Solve(st)

SpecLQOC == InitLQOC /\ [][NextLQOC]_vars

(***************************************************************************)
(* Properties of the tier cache.                                           *)
(***************************************************************************)
Cs == DOMAIN sc

TierRoutines ==
    {"integrate", "integrateCost", "linearize", "integrateSensitivityDX0",
     "integrateSensitivityDU0", "integrateCostSensitivityDX0",
     "integrateCostSensitivityDU0"}

InLog(s, name) == \E k \in DOMAIN s.integratorCT_.calls : s.integratorCT_.calls[k] = name

\* the cached outputs and the four stored counters of a container
Caches(s) ==
    <<s.x_history_, s.t_history_, s.dXdSiBack_, s.dXdQiBack_, s.dXdQip1Back_,
      s.cost_, s.costGradientSi_, s.costGradientQi_, s.costGradientQip1_>>
Counters(s) ==
    <<s.integrationCount_, s.costIntegrationCount_, s.sensIntegrationCount_,
      s.costSensIntegrationCount_>>

\* C1: for each tier, in every reachable state (the state right after
\* construction included), the stored counter equals w's update counter if and
\* only if the tier's cached output was computed from the content of w that
\* carries that counter value.
C1_CounterIffComputedFromCurrent ==
    \A c \in Cs : Constructed(c) =>
        /\ (sc[c].integrationCount_ = w.count) <=> (sc[c].ver.x = w.count)
        /\ (sc[c].costIntegrationCount_ = w.count) <=> (sc[c].ver.cost = w.count)
        /\ (sc[c].sensIntegrationCount_ = w.count) <=> (sc[c].ver.sens = w.count)
        /\ (sc[c].costSensIntegrationCount_ = w.count) <=> (sc[c].ver.costSens = w.count)

\* no tier that counts as up to date holds an output computed for an earlier
\* counter value
NoStaleOutput(s, W) ==
    /\ s.integrationCount_ = W.count => s.ver.x \in {-1, W.count}
    /\ s.costIntegrationCount_ = W.count => s.ver.cost \in {-1, W.count}
    /\ s.sensIntegrationCount_ = W.count => s.ver.sens \in {-1, W.count}
    /\ s.costSensIntegrationCount_ = W.count => s.ver.costSens \in {-1, W.count}

AllStale(s, W) ==
    /\ s.integrationCount_ # W.count
    /\ s.costIntegrationCount_ # W.count
    /\ s.sensIntegrationCount_ # W.count
    /\ s.costSensIntegrationCount_ # W.count

\* a tier invoked while stale has run its routines, and every stale tier it
\* depends on has run its routines too; afterwards all of them carry w's counter
RecomputedShot(s, t, W) ==
    /\ t.integrationCount_ = W.count
    /\ s.integrationCount_ # W.count => InLog(t, "integrate") /\ t.ver.x = W.count
RecomputedCost(s, t, W) ==
    /\ t.costIntegrationCount_ = W.count
    /\ s.costIntegrationCount_ # W.count =>
          /\ InLog(t, "integrateCost")
          /\ RecomputedShot(s, t, W)
RecomputedSens(s, t, W) ==
    /\ t.sensIntegrationCount_ = W.count
    /\ s.sensIntegrationCount_ # W.count =>
          /\ InLog(t, "linearize") /\ InLog(t, "integrateSensitivityDX0")
          /\ InLog(t, "integrateSensitivityDU0")
          /\ RecomputedShot(s, t, W)
RecomputedCostSens(s, t, W) ==
    /\ t.costSensIntegrationCount_ = W.count
    /\ s.costSensIntegrationCount_ # W.count =>
          /\ InLog(t, "integrateCostSensitivityDX0")
          /\ InLog(t, "integrateCostSensitivityDU0")
          /\ RecomputedSens(s, t, W)

\* C2: a mutation of w leaves every tier of every container stale; a tier
\* invoked after it recomputes itself and the stale tiers it depends on; and no
\* tier that counts as up to date holds an output computed for an earlier
\* counter value.
C2_MutationInvalidatesAndRecomputes ==
    [][\A c \in Cs : Constructed(c) =>
          /\ (w'.count # w.count) => AllStale(sc'[c], w')
          /\ NoStaleOutput(sc'[c], w')
          /\ (w.count >= 1 /\ IntegrateShot(c)) => RecomputedShot(sc[c], sc'[c], w)
          /\ (w.count >= 1 /\ IntegrateCost(c)) => RecomputedCost(sc[c], sc'[c], w)
          /\ (w.count >= 1 /\ IntegrateSensitivities(c)) => RecomputedSens(sc[c], sc'[c], w)
          /\ (w.count >= 1 /\ IntegrateCostSensitivities(c)) =>
                 RecomputedCostSens(sc[c], sc'[c], w)]_vars

\* a cost output computed for counter value 1 was replaced after the second
\* mutation by one computed for counter value 2, through integrateCost alone
C2_Witness ==
    \E c \in Cs :
        /\ Constructed(c)
        /\ w.count = 2
        /\ sc[c].ver.cost = 2 /\ sc[c].ver.x = 2
        /\ sc[c].ver.sens = 1
        /\ sc[c].integratorCT_.calls = <<"integrate", "integrateCost">>

\* the second of two calls of a tier changes nothing and runs no routine
SecondCallNoOp(s1, s2) == s2 = Begin(s1)

\* C3: a tier operation called twice with no mutation of w in between leaves
\* caches and counters after the second call as after the first, the second
\* call runs no integrator routine, and no routine runs twice for one counter
\* value.
C3_SecondCallIsNoOp ==
    \A c \in Cs : Constructed(c) =>
        LET s == Begin(sc[c])
            shot1 == integrateShot(s, w)
            cost1 == integrateCost(s, w)
            sens1 == integrateSensitivities(s, w)
            csens1 == integrateCostSensitivities(s, w)
        IN  /\ SecondCallNoOp(shot1, integrateShot(Begin(shot1), w))
            /\ SecondCallNoOp(cost1, integrateCost(Begin(cost1), w))
            /\ SecondCallNoOp(sens1, integrateSensitivities(Begin(sens1), w))
            /\ SecondCallNoOp(csens1, integrateCostSensitivities(Begin(csens1), w))
            /\ ~sc[c].integratorCT_.twice

\* after a mutation every tier routine has run for the current counter value,
\* and the last tier call found its tier up to date and ran nothing
C3_Witness ==
    \E c \in Cs :
        /\ Constructed(c)
        /\ w.count >= 1
        /\ TierRoutines \subseteq sc[c].integratorCT_.ran
        /\ sc[c].integratorCT_.calls = <<>>

\* what C4 compares: history, sensitivities, cost gradients and three counters
ChainResult(s) ==
    <<s.x_history_, s.t_history_, s.dXdSiBack_, s.dXdQiBack_, s.dXdQip1Back_,
      s.costGradientSi_, s.costGradientQi_, s.costGradientQip1_,
      s.integrationCount_, s.sensIntegrationCount_, s.costSensIntegrationCount_>>

InOrder(s, W) ==
    integrateCostSensitivities(
        Begin(integrateSensitivities(Begin(integrateShot(Begin(s), W)), W)), W)

\* C4: from any reachable state, integrateCostSensitivities() alone gives the
\* same history, sensitivities, cost gradients and counters as integrateShot(),
\* integrateSensitivities(), integrateCostSensitivities() called in that order.
C4_AloneEqualsInOrder ==
    \A c \in Cs : Constructed(c) =>
        ChainResult(integrateCostSensitivities(Begin(sc[c]), w))
            = ChainResult(InOrder(sc[c], w))

\* integrateCostSensitivities() was called with all three tiers stale and ran
\* the whole chain itself
C4_Witness ==
    \E c \in Cs :
        /\ Constructed(c)
        /\ w.count >= 1
        /\ InLog(sc[c], "integrate") /\ InLog(sc[c], "linearize")
        /\ InLog(sc[c], "integrateCostSensitivityDX0")
        /\ sc[c].costIntegrationCount_ # w.count

AllTiersRan(s) == TierRoutines \subseteq s.integratorCT_.ran

FullChain(s, W) ==
    integrateCostSensitivities(
        Begin(integrateSensitivities(
            Begin(integrateCost(Begin(integrateShot(Begin(s), W)), W)), W)), W)

\* C5: once all four tiers have run for the current w, reset() followed by the
\* four tiers with w unchanged leaves history, sensitivities, cost and cost
\* gradients equal to their values before reset().
C5_ResetThenChainKeepsCaches ==
    \A c \in Cs : (Constructed(c) /\ AllTiersRan(sc[c])) =>
        Caches(FullChain(reset(Begin(sc[c])), w)) = Caches(sc[c])

\* reset() has just run on a container whose four tiers had all run for the
\* current w
C5_Witness ==
    \E c \in Cs :
        /\ Constructed(c)
        /\ AllTiersRan(sc[c])
        /\ sc[c].x_history_ # <<>>
        /\ sc[c].integratorCT_.calls =
               <<"clearStates", "clearSensitivities", "clearLinearization">>

(***************************************************************************)
(* Properties of construction and of containers sharing w.                 *)
(***************************************************************************)
FailedCtor(s) == s.pc \in {"throw_shot_index", "throw_adaptive", "exit"}

InCtor(s, step) == \E k \in DOMAIN s.ctor : s.ctor[k] = step

\* nothing after the failing check has run, and no tier has touched the object
NothingBuilt(s) ==
    /\ ~InCtor(s, "getShotStartTime") /\ ~InCtor(s, "getShotEndTime")
    /\ ~InCtor(s, "nSteps")
    /\ ~InCtor(s, "setLinearSystem") /\ ~InCtor(s, "setCostFunction")
    /\ ~s.integratorCT_.linearSystem /\ ~s.integratorCT_.costFct
    /\ s.integratorCT_.calls = <<>> /\ s.integratorCT_.ran = {}
    /\ Counters(s) = <<0, 0, 0, 0>>
    /\ s.x_history_ = <<>> /\ s.t_history_ = <<>>

\* C6: a shot index >= N_, the adaptive RK5 scheme or an unknown scheme ends
\* construction before the time grid is queried, the step count computed or a
\* linear system / cost function bound; no tier ever runs on the object; with
\* both the shot index and the scheme invalid the shot-index error is reported.
C6_FatalConstruction ==
    \A c \in Cs : sc[c].pc # "new" =>
        LET s == sc[c]
            badShot == s.shotNr_ >= s.settings_.N_
            scheme == s.settings_.integrationType_
        IN  /\ badShot => s.pc = "throw_shot_index"
            /\ (~badShot /\ scheme = "RK5") => s.pc = "throw_adaptive"
            /\ (~badShot /\ scheme \notin {"EULER", "RK4", "RK5"}) =>
                   (s.pc = "exit" /\ procExited)
            /\ (~badShot /\ scheme \in {"EULER", "RK4"}) => s.pc = "ok"
            /\ FailedCtor(s) => NothingBuilt(s)

\* construction with both the shot index and the scheme invalid has failed, and
\* w has been rewritten since without the object coming to life
C6_Witness ==
    \E c \in Cs :
        /\ sc[c].pc = "throw_shot_index"
        /\ sc[c].settings_.integrationType_ \in {"RK5", "UNKNOWN"}
        /\ w.count >= 1

C8_PredicatesFollowCalls ==
    \A i \in Problems :
        LET p == lqoc.problem[i]
        IN  /\ isControlBoxConstrained(p) <=> ("setControlBoxConstraints" \in p.since)
            /\ isStateBoxConstrained(p) <=> ("setStateBoxConstraints" \in p.since)
            /\ isConstrained(p) <=> (isControlBoxConstrained(p) \/ isStateBoxConstrained(p))
            /\ ~isGeneralConstrained(p)

\* one problem carries only control box constraints, the other only state box
\* constraints installed after a setZero
C8_Witness ==
    /\ lqoc.problem[1].since = {"setFromTimeInvariantLinearQuadraticProblem", "setControlBoxConstraints"}
    /\ isControlBoxConstrained(lqoc.problem[1]) /\ ~isStateBoxConstrained(lqoc.problem[1])
    /\ lqoc.problem[2].zeroed
    /\ lqoc.problem[2].since = {"setStateBoxConstraints"}
    /\ isStateBoxConstrained(lqoc.problem[2]) /\ ~isControlBoxConstrained(lqoc.problem[2])

\* C9: setZero removes every installed constraint: a problem that carried
\* control box constraints, after setZero, setFrom... and
\* setStateBoxConstraints only, is state-box but not control-box constrained;
\* after setZero alone it is unconstrained; N stays the N of construction.
C9_SetZeroRemovesConstraints ==
    \A i \in Problems :
        LET p == lqoc.problem[i]
        IN  /\ (p.zeroed /\ p.since = {}) =>
                   (~isConstrained(p) /\ \A k \in 1 .. p.N : p.stages[k] = 0)
            /\ (p.zeroed /\ p.hadControlBox
                  /\ p.since = {"setFromTimeInvariantLinearQuadraticProblem",
                                "setStateBoxConstraints"}) =>
                   (~isControlBoxConstrained(p) /\ isStateBoxConstrained(p))
            /\ p.N = LqocN /\ DOMAIN p.stages = 1 .. LqocN

\* a problem that carried control box constraints was zeroed, set again and
\* given state box constraints only
C9_Witness ==
    \E i \in Problems :
        LET p == lqoc.problem[i]
        IN  /\ p.zeroed /\ p.hadControlBox
            /\ p.since = {"setFromTimeInvariantLinearQuadraticProblem", "setStateBoxConstraints"}
            /\ isStateBoxConstrained(p)

\* C10: solve of the Riccati strategy on a bound problem that carries control
\* box constraints, state box constraints or both never returns normally.
C10_RiccatiThrowsOnConstrained ==
    LET s == lqoc.solver["GNRiccatiSolver"]
    IN  (s.outcome # "none" /\ s.boundConstrained) => s.outcome = "threw"

\* C11: for both strategies, setProblem binds the given problem, replacing
\* the one bound before, without solving and without changing the stored
\* solution; solve works on the bound problem as it is when solve is called and
\* rebuilds the solution from it, whatever solution was stored before.
C11_SolveUsesBoundProblemAsIs ==
    [][\A st \in Strategies :
          LET s == lqoc.solver[st]
              t == lqoc'.solver[st]
          IN  /\ \A i \in Problems : SetProblem(st, i) =>
                    /\ t.problem = i
                    /\ t.solution = s.solution /\ t.outcome = s.outcome
              /\ Solve(st) =>
                    /\ t.problem = s.problem
                    /\ lqoc'.problem = lqoc.problem
                    /\ t.outcome = "solved" =>
                          /\ t.solution = Solution(lqoc.problem[s.problem])
                          /\ Len(t.solution.x) = LqocN + 1
                          /\ Len(t.solution.u) = LqocN /\ Len(t.solution.K) = LqocN
                    /\ t.outcome = "threw" => t.solution = NoSolution]_vars

\* each solver holds the solution of problem 2, bound in place of problem 1 and
\* solved after problem 2, which had carried control box constraints, was
\* zeroed, set again and given state box constraints only
C11_Witness ==
    LET p == lqoc.problem[2]
    IN  /\ p.zeroed /\ p.hadControlBox
        /\ p.since = {"setFromTimeInvariantLinearQuadraticProblem", "setStateBoxConstraints"}
        /\ lqoc.problem[1].since = {}
        /\ \A st \in Strategies :
              /\ lqoc.solver[st].problem = 2
              /\ lqoc.solver[st].outcome = "solved"
              /\ lqoc.solver[st].solution = Solution(p)

(***************************************************************************)
(* Properties of the accessors.                                            *)
(***************************************************************************)
\* C13: an accessor called before its tier has ever run gives its caller the
\* value currently cached, without failing; getStateIntegrated() and
\* getIntegrationTimeFinal() on a never-filled history give a defined value.
C13_AccessorsNeverFail ==
    \A c \in Cs : Constructed(c) => sc[c].ret.kind \in {"none", "value", "array"}

C14_FailedTierStaysStale ==
    [][\A c \in Cs :
          /\ IntegrateShotRaises(c) =>
                /\ sc'[c].integrationCount_ # getUpdateCount(w')
                /\ InLog(integrateShot(Begin(sc'[c]), w'), "integrate")
          /\ IntegrateSensitivitiesRaises(c) =>
                /\ sc'[c].sensIntegrationCount_ # getUpdateCount(w')
                /\ InLog(integrateSensitivities(Begin(sc'[c]), w'), "linearize")]_vars

(***************************************************************************)
(* Properties of the steps inside a recomputation.                         *)
(***************************************************************************)
\* routine a was called before routine b by the operation just run
CalledBefore(s, a, b) ==
    \E i, j \in DOMAIN s.integratorCT_.calls :
        /\ i < j
        /\ s.integratorCT_.calls[i] = a /\ s.integratorCT_.calls[j] = b

\* C15: with a piecewise-constant spline no operation calls the DUf sensitivity
\* or DUf cost-sensitivity routine or writes the end-control sensitivity or
\* cost gradient; with a piecewise-linear spline each recomputation of
\* integrateSensitivities() / integrateCostSensitivities() integrates the
\* end-control quantity from zero, after the start-control one.
C15_EndControlIffPiecewiseLinear ==
    [][\A c \in Cs : Constructed(c) =>
          LET s == sc[c]
              t == sc'[c]
              linear == s.settings_.splineType_ = "PIECEWISE_LINEAR"
              sens == s.sensIntegrationCount_ # w.count
                          /\ (IntegrateSensitivities(c) \/ IntegrateCostSensitivities(c))
              costSens == s.costSensIntegrationCount_ # w.count
                              /\ IntegrateCostSensitivities(c)
          IN  /\ ~linear =>
                    /\ ~InLog(t, "integrateSensitivityDUf")
                    /\ ~InLog(t, "integrateCostSensitivityDUf")
                    /\ t.dXdQip1Back_ = s.dXdQip1Back_
                    /\ t.costGradientQip1_ = s.costGradientQip1_
              /\ (linear /\ sens) =>
                    /\ CalledBefore(t, "integrateSensitivityDU0", "integrateSensitivityDUf")
                    /\ t.dXdQip1Back_ = SensDUf(t.integratorCT_, 0, t.nSteps_)
              /\ (linear /\ costSens) =>
                    /\ CalledBefore(t, "integrateCostSensitivityDU0",
                                    "integrateCostSensitivityDUf")
                    /\ t.costGradientQip1_ = CostSensDUf(t.integratorCT_, 0, t.nSteps_)]_vars

\* with a piecewise-linear spline the whole chain was recomputed for the second
\* content of w, the end-control quantities having held values of the first
C15_Witness ==
    \E c \in Cs :
        /\ Constructed(c)
        /\ sc[c].settings_.splineType_ = "PIECEWISE_LINEAR"
        /\ w.count = 2
        /\ sc[c].costSensIntegrationCount_ = 2
        /\ InLog(sc[c], "integrateSensitivityDUf")
        /\ InLog(sc[c], "integrateCostSensitivityDUf")

\* the routines a recomputation calls, in order, given which tiers were stale
ShotCalls(s, W) == IF s.integrationCount_ # W.count THEN <<"integrate">> ELSE <<>>
SensCalls(s, W) ==
    IF s.sensIntegrationCount_ # W.count
    THEN ShotCalls(s, W)
         \o <<"linearize", "integrateSensitivityDX0", "integrateSensitivityDU0">>
         \o (IF s.settings_.splineType_ = "PIECEWISE_LINEAR"
             THEN <<"integrateSensitivityDUf">> ELSE <<>>)
    ELSE <<>>

\* C16: a recomputation inside integrateSensitivities() runs the state
\* integration (if stale), then linearize(), then the DX0 and DU0 integrations,
\* each started from its seed (identity, zero) and never from a value of an
\* earlier iteration; integrateCost() integrates from cost 0 and
\* integrateCostSensitivities() from zero gradients, also for one step.
C16_SeededInOrder ==
    [][\A c \in Cs : Constructed(c) =>
          LET s == sc[c]
              t == sc'[c]
              ig == t.integratorCT_
          IN  /\ (IntegrateSensitivities(c) /\ s.sensIntegrationCount_ # w.count) =>
                    /\ ig.calls = SensCalls(s, w)
                    /\ t.dXdSiBack_ = SensDX0(ig, 1, t.nSteps_)
                    /\ t.dXdQiBack_ = SensDU0(ig, 0, t.nSteps_)
              /\ (IntegrateCost(c) /\ s.costIntegrationCount_ # w.count) =>
                    /\ ig.calls = ShotCalls(s, w) \o <<"integrateCost">>
                    /\ t.cost_ = CostOut(ig, 0, t.nSteps_)
              /\ (IntegrateCostSensitivities(c) /\ s.costSensIntegrationCount_ # w.count) =>
                    /\ SubSeq(ig.calls, 1, Len(SensCalls(s, w))) = SensCalls(s, w)
                    /\ t.costGradientSi_ = CostSensDX0(ig, 0, t.nSteps_)
                    /\ t.costGradientQi_ = CostSensDU0(ig, 0, t.nSteps_)]_vars

\* a one-step shot recomputed its cost for the second content of w while its
\* cost of the first content was not zero
C16_Witness ==
    \E c \in Cs :
        /\ Constructed(c)
        /\ sc[c].nSteps_ = 1
        /\ w.count = 2
        /\ sc[c].integratorCT_.calls = <<"integrate", "integrateCost">>
        /\ sc[c].sensIntegrationCount_ = 1 /\ sc[c].dXdSiBack_ # 1
        /\ sc[c].cost_ # 0

(***************************************************************************)
(* Properties of reset() and of the tier counters.                         *)
(***************************************************************************)
\* C17: reset() changes nothing but the integrator's states, sensitivities and
\* linearization: the four counters and every cached output of the container
\* stay, and a tier that was up to date before reset() is a no-op after it.
C17_ResetFrame ==
    \A c \in Cs : Constructed(c) =>
        LET s == Begin(sc[c])
            t == reset(s)
            ig == s.integratorCT_
            jg == t.integratorCT_
        IN  /\ Counters(t) = Counters(s) /\ Caches(t) = Caches(s)
            /\ [t EXCEPT !.integratorCT_ = ig] = s
            /\ jg.stepper = ig.stepper /\ jg.linearSystem = ig.linearSystem
            /\ jg.costFct = ig.costFct
            /\ jg.states = <<>> /\ jg.A = <<>> /\ jg.sensX0 = <<>>
            /\ s.integrationCount_ = w.count =>
                   integrateShot(Begin(t), w) = Begin(t)
            /\ s.costIntegrationCount_ = w.count =>
                   integrateCost(Begin(t), w) = Begin(t)
            /\ s.sensIntegrationCount_ = w.count =>
                   integrateSensitivities(Begin(t), w) = Begin(t)
            /\ s.costSensIntegrationCount_ = w.count =>
                   integrateCostSensitivities(Begin(t), w) = Begin(t)

\* reset() has just cleared the integrator of a container whose state and
\* sensitivity tiers are up to date for an updated w and whose cost tier is not
C17_Witness ==
    \E c \in Cs :
        /\ Constructed(c)
        /\ w.count >= 1
        /\ sc[c].sensIntegrationCount_ = w.count
        /\ sc[c].costIntegrationCount_ # w.count
        /\ sc[c].x_history_ # <<>>
        /\ sc[c].integratorCT_.states = <<>>
        /\ InLog(sc[c], "clearLinearization")

Max(a, b) == IF a >= b THEN a ELSE b

\* C19: w's counter only increases, and in every reachable state no stored
\* counter exceeds it, the state-integration counter is the maximum of the four,
\* the sensitivity counter is at least the cost-sensitivity counter; so an
\* up-to-date tier has every tier it depends on up to date.
C19_CounterOrdering ==
    \A c \in Cs : Constructed(c) =>
        LET s == sc[c]
            upToDate(n) == n = getUpdateCount(w)
        IN  /\ \A k \in 1 .. 4 : Counters(s)[k] <= getUpdateCount(w)
            /\ s.integrationCount_ =
                   Max(Max(s.integrationCount_, s.costIntegrationCount_),
                       Max(s.sensIntegrationCount_, s.costSensIntegrationCount_))
            /\ s.sensIntegrationCount_ >= s.costSensIntegrationCount_
            /\ upToDate(s.costSensIntegrationCount_) => upToDate(s.sensIntegrationCount_)
            /\ upToDate(s.sensIntegrationCount_) => upToDate(s.integrationCount_)
            /\ upToDate(s.costIntegrationCount_) => upToDate(s.integrationCount_)

\* the four counters differ: state and cost tiers ran for the second content of
\* w, the sensitivity tier only for the first, the cost-sensitivity tier never
C19_Witness ==
    \E c \in Cs :
        /\ Constructed(c)
        /\ w.count = 2
        /\ Counters(sc[c]) = <<2, 2, 1, 0>>

\* C20: whenever linearize(), a sensitivity routine or integrateCost is called,
\* the integrator holds a trajectory integrated for w's current counter and not
\* cleared since; whenever a cost-sensitivity routine is called it also holds
\* linearization and sensitivities computed for the current counter and not
\* cleared since.
C20_IntegratorDataCurrentWhenUsed ==
    [][\A c \in Cs : Constructed(c) =>
          LET t == sc'[c]
          IN  /\ (IntegrateCost(c) /\ InLog(t, "integrateCost")) =>
                     t.ver.cost = getUpdateCount(w)
              /\ ((IntegrateSensitivities(c) \/ IntegrateCostSensitivities(c))
                     /\ InLog(t, "linearize")) =>
                     t.ver.sens = getUpdateCount(w)
              /\ (IntegrateCostSensitivities(c)
                     /\ InLog(t, "integrateCostSensitivityDX0")) =>
                     t.ver.costSens = getUpdateCount(w)]_vars

(***************************************************************************)
(* Properties of the cost routines and of the order inside a tier.         *)
(***************************************************************************)
CostRoutines ==
    {"integrateCost", "integrateCostSensitivityDX0", "integrateCostSensitivityDU0",
     "integrateCostSensitivityDUf"}

\* C21: for every cost-evaluation mode, a cost routine of the integrator is
\* called only on an integrator that has received setCostFunction.
C21_CostRoutinesNeedCostFunction ==
    \A c \in Cs : Constructed(c) =>
        ((\E name \in CostRoutines : InLog(sc[c], name)) => sc[c].integratorCT_.costFct)

\* C22: from every state reached by tier calls and mutations of w, each
\* dependent tier in the documented order (prerequisite first, then the own
\* counter) and in the implemented order (own counter first, then the
\* prerequisite) makes the same integrator calls in the same order and ends in
\* the same counters and cached outputs.
C22_OrdersEquivalent ==
    \A c \in Cs : Constructed(c) =>
        LET s == Begin(sc[c])
        IN  /\ integrateCostPrerequisiteFirst(s, w) = integrateCost(s, w)
            /\ integrateSensitivitiesPrerequisiteFirst(s, w) = integrateSensitivities(s, w)
            /\ integrateCostSensitivitiesPrerequisiteFirst(s, w)
                   = integrateCostSensitivities(s, w)

\* the cost and cost-sensitivity tiers are up to date for the second content of
\* w while another call is made: the implemented order returns at its own
\* comparison, the documented order still visits the prerequisite tier
C22_Witness ==
    \E c \in Cs :
        /\ Constructed(c)
        /\ w.count = 2
        /\ Counters(sc[c]) = <<2, 2, 2, 2>>
        /\ sc[c].ver.x = 2
        /\ sc[c].integratorCT_.calls = <<>>

====
